---- MODULE Spec2Model ----
(***************************************************************************)
(* Encrypted local prompt store of zhuguang-edge.                          *)
(*                                                                         *)
(*   lib/utils/encryption.ts        key slot, encryptText, decryptText,    *)
(*                                  isEncrypted                            *)
(*   lib/promptEncryptionManager.ts encryptPrompt, decryptPrompt,          *)
(*                                  decryptPrompts, decryptPromptOnDemand  *)
(*   data/.../promptRepository.ts   addPrompt, getAllPrompts,              *)
(*                                  getPromptsByType, getPromptById,       *)
(*                                  updatePrompt, deletePrompt, copyPrompt *)
(*                                                                         *)
(* A text is a sequence of characters.  The salted envelope that           *)
(* CryptoJS.AES.encrypt(text, passphrase).toString() produces is the       *)
(* sequence  U 2 F <salt> <key> <body>: the three marker characters every  *)
(* salted envelope starts with, the random salt, and the body locked under *)
(* the passphrase.  Only AesDecrypt looks behind the marker.               *)
(***************************************************************************)
EXTENDS Integers, Sequences, FiniteSets, TLC

\* ------------------------------------------------------------------ bounds
MaxPrompts == 2     \* records the store ever gets (ids 1..MaxPrompts)
MaxWrap    == 1     \* envelope layers a text handed to an operation may carry
MaxWrites  == 2     \* writes of the key slot that are counted
MaxSelections == 2  \* records of the selection store
MaxNow     == 1     \* readings the clock takes after the first (0..MaxNow)

\* ------------------------------------------------------------- value sets
Keys   == {"k1", "k2"}          \* values WordArray.random(32) may take
LegacyKey == "kUser"            \* generateEncryptionKey(userId), the old scheme
AllKeys == Keys \cup {LegacyKey}
Salts  == {"s1", "s2"}          \* values the random envelope salt may take
NoKey  == "nokey"               \* localStorage.getItem(...) === null
Marker == <<"U", "2", "F">>
Garbage == <<"?">>              \* bytes of a wrong decryption that are valid UTF-8
NoId   == 0                     \* Omit<Prompt, 'id'>, or a falsy id
Faults == {"none", "key", "detect", "encrypt"}

VARIABLES
  keySlot,       \* localStorage['zhuguang_local_encryption_key']
  store,         \* the PROMPTS object store, in key order
  nextId,        \* the key the store assigns next
  now,           \* new Date()
  last,          \* the call that just returned, as its caller sees it
  keysReturned,  \* every key generateLocalEncryptionKey has returned
  slotWrites,    \* localStorage.setItem(...) calls so far, up to MaxWrites
  cryptoFailed,  \* some key retrieval, detection or encryption has failed
  loop,          \* the decryptPrompts call in progress, one await at a time
  tabs,          \* the browsing contexts in their first encryptPrompt call
  page,          \* the prompt page: its list, its detail modal, its last alert
  selections,    \* the USER_PROMPT_SELECTIONS object store, in key order
  selNextId,     \* the key that store assigns next
  adding         \* the addUserPromptSelection calls in progress

vars == <<keySlot, store, nextId, now, last, keysReturned,
          slotWrites, cryptoFailed, loop, tabs, page, selections, selNextId, adding>>

\* ------------------------------------------------------------------ texts
StartsWithMarker(text) ==
  Len(text) >= 3 /\ SubSeq(text, 1, 3) = Marker

IsEnvelope(text) ==
  /\ Len(text) >= 5
  /\ SubSeq(text, 1, 3) = Marker
  /\ text[4] \in Salts
  /\ text[5] \in AllKeys

RECURSIVE Wraps(_)
Wraps(text) ==
  IF IsEnvelope(text) THEN 1 + Wraps(SubSeq(text, 6, Len(text))) ELSE 0

\* ----------------------------------------------------------------- cipher
\* CryptoJS.AES.encrypt(text, key).toString()
AesEncrypt(text, key, salt) == Marker \o <<salt, key>> \o text

\* What AES leaves behind when an envelope is opened with a passphrase it was
\* not made with.  The PKCS7 unpadding is not validated, so the bytes are a
\* fixed but arbitrary function of the ciphertext and the passphrase: no UTF-8
\* at all ("malformed"), no bytes at all ("empty"), or a readable string
\* ("garbage").  Which one is decided by the envelope, here by its salt and
\* the key it was made with; each of the three happens under every key.
WrongKeyBytes(salt, madeWith, key) ==
  IF madeWith = LegacyKey
  THEN IF salt = "s1" THEN "malformed" ELSE "empty"
  ELSE IF salt = "s1" THEN "garbage" ELSE "malformed"

\* CryptoJS.AES.decrypt(text, key).toString(CryptoJS.enc.Utf8): the body when
\* the passphrase is the one the envelope was made with; otherwise the UTF-8
\* conversion throws, yields the empty string, or yields a string of garbage.
\* A text that is no envelope has no salted header to derive a key from.
AesDecrypt(text, key) ==
  IF ~IsEnvelope(text)
  THEN [threw |-> TRUE, text |-> <<>>]
  ELSE IF text[5] = key
  THEN [threw |-> FALSE, text |-> SubSeq(text, 6, Len(text))]
  ELSE LET Utf8(o) ==
             CASE o = "malformed" -> [threw |-> TRUE,  text |-> <<>>]
               [] o = "empty"     -> [threw |-> FALSE, text |-> <<>>]
               [] OTHER           -> [threw |-> FALSE, text |-> Garbage]
       IN  Utf8(WrongKeyBytes(text[4], text[5], key))

encryptText(text, key, salt, fails) ==
  IF fails
  THEN [threw |-> TRUE,  text |-> <<>>]
  ELSE [threw |-> FALSE, text |-> AesEncrypt(text, key, salt)]

decryptText_NoEmptyCheck(encryptedText, key) == AesDecrypt(encryptedText, key)

decryptText_Swallows(encryptedText, key) ==
  LET Checked(bytes) ==
        IF bytes.threw \/ bytes.text = <<>>
        THEN [threw |-> FALSE, text |-> <<>>]
        ELSE [threw |-> FALSE, text |-> bytes.text]
  IN  Checked(AesDecrypt(encryptedText, key))

decryptText(encryptedText, key) ==
  LET Checked(bytes) ==
        IF bytes.threw \/ bytes.text = <<>>
        THEN [threw |-> TRUE,  text |-> <<>>]
        ELSE [threw |-> FALSE, text |-> bytes.text]
  IN  Checked(AesDecrypt(encryptedText, key))

isEncryptedCall_NoCatch(text, key) ==
  IF text = <<>> \/ ~StartsWithMarker(text)
  THEN [result |-> FALSE, threw |-> FALSE, decrypts |-> 0]
  ELSE LET Differs(decrypted) ==
             [result   |-> ~decrypted.threw /\ decrypted.text # text,
              threw    |-> decrypted.threw,
              decrypts |-> 1]
       IN  Differs(decryptText(text, key))

isEncryptedCall_NoMarkerCheck(text, key) ==
  LET Differs(decrypted) ==
        [result   |-> IF decrypted.threw THEN FALSE ELSE decrypted.text # text,
         threw    |-> FALSE,
         decrypts |-> 1]
  IN  Differs(decryptText(text, key))

isEncryptedCall_MarkerOnly(text, key) ==
  IF text = <<>> \/ ~StartsWithMarker(text)
  THEN [result |-> FALSE, threw |-> FALSE, decrypts |-> 0]
  ELSE [result |-> TRUE,  threw |-> FALSE, decrypts |-> 0]

\* isEncrypted as a call: its answer, whether it threw, and how many times it
\* called decryptText.
isEncryptedCall(text, key) ==
  IF text = <<>> \/ ~StartsWithMarker(text)
  THEN [result |-> FALSE, threw |-> FALSE, decrypts |-> 0]
  ELSE LET Differs(decrypted) ==
             [result   |-> IF decrypted.threw THEN FALSE
                           ELSE decrypted.text # text,
              threw    |-> FALSE,
              decrypts |-> 1]
       IN  Differs(decryptText(text, key))

isEncrypted(text, key) == isEncryptedCall(text, key).result

\* -------------------------------------------------------------- key slot
generateLocalEncryptionKey_AlwaysNew(slot, newKey, fails) ==
  IF fails
  THEN [threw |-> TRUE,  key |-> NoKey,  slot |-> slot,   writes |-> 0]
  ELSE [threw |-> FALSE, key |-> newKey, slot |-> newKey, writes |-> 1]

\* newKey is the value the random generator would give; fails is localStorage
\* throwing (no localStorage in this context, storage disabled or full).
generateLocalEncryptionKey(slot, newKey, fails) ==
  IF fails
  THEN [threw |-> TRUE,  key |-> NoKey,  slot |-> slot,   writes |-> 0]
  ELSE IF slot # NoKey
  THEN [threw |-> FALSE, key |-> slot,   slot |-> slot,   writes |-> 0]
  ELSE [threw |-> FALSE, key |-> newKey, slot |-> newKey, writes |-> 1]

\* ---------------------------------------------------------------- gateway
\* What a Gateway call hands back: the value, whether it threw, whether its
\* catch block ran, and what it did to the key slot.
Gw(threw, caught, value, k, input) ==
  [threw |-> threw, caught |-> caught, value |-> value, slot |-> k.slot,
   keys |-> IF k.threw THEN {} ELSE {k.key}, writes |-> k.writes,
   input |-> input]

ShallowCopy_InPlace(prompt, content) ==
  [value |-> [prompt EXCEPT !.content = content],
   input |-> [prompt EXCEPT !.content = content]]

\* { ...prompt, content }: a new object with the fields of prompt and the
\* content given; input is the object passed in, as the call leaves it.
ShallowCopy(prompt, content) ==
  [value |-> [prompt EXCEPT !.content = content], input |-> prompt]

\* The try block of encryptPrompt.  fault is what goes wrong inside it:
\* "key" (localStorage throws), "detect" (isEncrypted throws: content is no
\* string), "encrypt" (the primitive throws), or "none".
encryptPromptTry(prompt, slot, newKey, salt, fault) ==
  LET WithCopy(c, k) == Gw(FALSE, FALSE, c.value, k, c.input)
      WithContent(encryptedContent, k) ==
        IF encryptedContent.threw
        THEN Gw(TRUE, FALSE, prompt, k, prompt)
        ELSE WithCopy(ShallowCopy(prompt, encryptedContent.text), k)
      WithKey(k) ==
        IF k.threw \/ fault = "detect"
        THEN Gw(TRUE, FALSE, prompt, k, prompt)
        ELSE IF isEncrypted(prompt.content, k.key)
        THEN Gw(FALSE, FALSE, prompt, k, prompt)
        ELSE WithContent(encryptText(prompt.content, k.key, salt,
                                     fault = "encrypt"), k)
  IN  WithKey(generateLocalEncryptionKey(slot, newKey, fault = "key"))

encryptPrompt_NoCatch(prompt, slot, newKey, salt, fault) ==
  encryptPromptTry(prompt, slot, newKey, salt, fault)

encryptPrompt(prompt, slot, newKey, salt, fault) ==
  LET Catch(r) ==
        IF r.threw
        THEN [r EXCEPT !.threw = FALSE, !.caught = TRUE, !.value = prompt]
        ELSE r
  IN  Catch(encryptPromptTry(prompt, slot, newKey, salt, fault))

\* The try block of decryptPrompt.
decryptPromptTry(prompt, slot, newKey, fault) ==
  LET WithCopy(c, k) == Gw(FALSE, FALSE, c.value, k, c.input)
      WithContent(decryptedContent, k) ==
        IF decryptedContent.threw
        THEN Gw(TRUE, FALSE, prompt, k, prompt)
        ELSE WithCopy(ShallowCopy(prompt, decryptedContent.text), k)
      WithKey(k) ==
        IF k.threw \/ fault = "detect"
        THEN Gw(TRUE, FALSE, prompt, k, prompt)
        ELSE IF ~isEncrypted(prompt.content, k.key)
        THEN Gw(FALSE, FALSE, prompt, k, prompt)
        ELSE WithContent(decryptText(prompt.content, k.key), k)
  IN  WithKey(generateLocalEncryptionKey(slot, newKey, fault = "key"))

decryptPrompt_NoCatch(prompt, slot, newKey, fault) ==
  decryptPromptTry(prompt, slot, newKey, fault)

decryptPrompt(prompt, slot, newKey, fault) ==
  LET Catch(r) ==
        IF r.threw
        THEN [r EXCEPT !.threw = FALSE, !.caught = TRUE, !.value = prompt]
        ELSE r
  IN  Catch(decryptPromptTry(prompt, slot, newKey, fault))

\* decryptPrompts: one decryptPrompt after the other, in list order, each
\* pushed onto the result; faults[i] is what goes wrong while element i is
\* decrypted.  A decryptPrompt that throws ends the loop.
RECURSIVE decryptPrompts(_, _, _, _)
decryptPrompts(prompts, slot, newKey, faults) ==
  LET Push(d, rest) ==
        [threw   |-> d.threw \/ rest.threw,
         caught  |-> d.caught \/ rest.caught,
         prompts |-> <<d.value>> \o rest.prompts,
         slot    |-> rest.slot,
         keys    |-> d.keys \cup rest.keys,
         writes  |-> d.writes + rest.writes]
      Loop(d) ==
        IF d.threw
        THEN [threw |-> TRUE, caught |-> FALSE, prompts |-> <<>>,
              slot |-> d.slot, keys |-> d.keys, writes |-> d.writes]
        ELSE Push(d, decryptPrompts(Tail(prompts), d.slot, newKey,
                                    Tail(faults)))
  IN  IF prompts = <<>>
      THEN [threw |-> FALSE, caught |-> FALSE, prompts |-> <<>>,
            slot |-> slot, keys |-> {}, writes |-> 0]
      ELSE Loop(decryptPrompt(Head(prompts), slot, newKey, Head(faults)))

\* decryptPromptOnDemand: the content as a string.
decryptPromptOnDemandTry(prompt, slot, newKey, fault) ==
  LET WithContent(decrypted, k) == 
        Gw(decrypted.threw, FALSE, decrypted.text, k, prompt)
      WithKey(k) ==
        IF k.threw \/ fault = "detect"
        THEN Gw(TRUE, FALSE, prompt.content, k, prompt)
        ELSE IF ~isEncrypted(prompt.content, k.key)
        THEN Gw(FALSE, FALSE, prompt.content, k, prompt)
        ELSE WithContent(decryptText(prompt.content, k.key), k)
  IN  WithKey(generateLocalEncryptionKey(slot, newKey, fault = "key"))

decryptPromptOnDemand_NoCatch(prompt, slot, newKey, fault) ==
  decryptPromptOnDemandTry(prompt, slot, newKey, fault)

decryptPromptOnDemand(prompt, slot, newKey, fault) ==
  LET Catch(r) ==
        IF r.threw
        THEN [r EXCEPT !.threw = FALSE, !.caught = TRUE,
                       !.value = prompt.content]
        ELSE r
  IN  Catch(decryptPromptOnDemandTry(prompt, slot, newKey, fault))

\* ------------------------------------------------------- the local store
\* dbOperations over the PROMPTS object store: an auto-increment key, records
\* kept in key order.
dbAdd(st, id, record) == Append(st, [record EXCEPT !.id = id])

dbGetAll(st) == st

dbHas(st, id) == \E i \in 1..Len(st) : st[i].id = id

dbGetById(st, id) == st[CHOOSE i \in 1..Len(st) : st[i].id = id]

dbRemove(st, id) == SelectSeq(st, LAMBDA r : r.id # id)

dbUpdate(st, record) ==
  SelectSeq(st, LAMBDA r : r.id < record.id) \o <<record>>
    \o SelectSeq(st, LAMBDA r : r.id > record.id)

\* -------------------------------------------------------------- repository
\* prompts.sort((a, b) => b.updatedAt - a.updatedAt): a stable insertion of
\* each record behind those that are not older.
RECURSIVE sortByUpdatedAt(_)
sortByUpdatedAt(prompts) ==
  LET Insert(p, rest) ==
        SelectSeq(rest, LAMBDA r : r.updatedAt > p.updatedAt) \o <<p>>
          \o SelectSeq(rest, LAMBDA r : r.updatedAt <= p.updatedAt)
  IN  IF prompts = <<>>
      THEN <<>>
      ELSE Insert(Head(prompts), sortByUpdatedAt(Tail(prompts)))

\* What a Repository call hands back and leaves behind.
Repo(threw, ret, st, nid, g) ==
  [threw |-> threw, ret |-> ret, store |-> st, nextId |-> nid,
   slot |-> g.slot, keys |-> g.keys, writes |-> g.writes, caught |-> g.caught]

NoGateway(slot) ==
  [slot |-> slot, keys |-> {}, writes |-> 0, caught |-> FALSE]

addPrompt(prompt, st, nid, slot, newKey, salt, fault) ==
  LET Add(encryptedPrompt) ==
        IF encryptedPrompt.threw
        THEN Repo(TRUE, <<>>, st, nid, encryptedPrompt)
        ELSE Repo(FALSE, <<[encryptedPrompt.value EXCEPT !.id = nid]>>,
                  dbAdd(st, nid, encryptedPrompt.value), nid + 1,
                  encryptedPrompt)
  IN  Add(encryptPrompt(prompt, slot, newKey, salt, fault))

\* What a read returns once decryptPrompts or decryptPrompt has returned d.
Decrypted(d, ret, st, nid) ==
  Repo(d.threw, IF d.threw THEN <<>> ELSE ret, st, nid, d)

getAllPrompts(decryptContents, st, nid, slot, newKey, faults) ==
  LET Return(sortedPrompts) ==
        IF decryptContents
        THEN LET Got(d) == Decrypted(d, d.prompts, st, nid)
             IN  Got(decryptPrompts(sortedPrompts, slot, newKey, faults))
        ELSE Repo(FALSE, sortedPrompts, st, nid, NoGateway(slot))
  IN  Return(sortByUpdatedAt(dbGetAll(st)))

getPromptsByType_AlwaysDecrypt(type, decryptContents, st, nid, slot, newKey, faults) ==
  LET Return(sortedPrompts) ==
        LET Got(d) == Decrypted(d, d.prompts, st, nid)
        IN  Got(decryptPrompts(sortedPrompts, slot, newKey, faults))
  IN  Return(sortByUpdatedAt(SelectSeq(dbGetAll(st), LAMBDA r : r.type = type)))

\* Without prompts.sort: the records in the order of the store.
getPromptsByType_NoSort(type, decryptContents, st, nid, slot, newKey, faults) ==
  LET Return(sortedPrompts) ==
        IF decryptContents
        THEN LET Got(d) == Decrypted(d, d.prompts, st, nid)
             IN  Got(decryptPrompts(sortedPrompts, slot, newKey, faults))
        ELSE Repo(FALSE, sortedPrompts, st, nid, NoGateway(slot))
  IN  Return(SelectSeq(dbGetAll(st), LAMBDA r : r.type = type))

getPromptsByType(type, decryptContents, st, nid, slot, newKey, faults) ==
  LET Return(sortedPrompts) ==
        IF decryptContents
        THEN LET Got(d) == Decrypted(d, d.prompts, st, nid)
             IN  Got(decryptPrompts(sortedPrompts, slot, newKey, faults))
        ELSE Repo(FALSE, sortedPrompts, st, nid, NoGateway(slot))
  IN  Return(sortByUpdatedAt(SelectSeq(dbGetAll(st), LAMBDA r : r.type = type)))

\* ret is empty for null.
getPromptById(id, decryptContent, st, nid, slot, newKey, fault) ==
  IF ~dbHas(st, id)
  THEN Repo(FALSE, <<>>, st, nid, NoGateway(slot))
  ELSE IF decryptContent
  THEN LET Got(d) == Decrypted(d, <<d.value>>, st, nid)
       IN  Got(decryptPrompt(dbGetById(st, id), slot, newKey, fault))
  ELSE Repo(FALSE, <<dbGetById(st, id)>>, st, nid, NoGateway(slot))

updatePrompt_NewId(prompt, st, nid, slot, newKey, salt, fault) ==
  LET Update(encryptedPrompt) ==
        IF encryptedPrompt.threw \/ fault = "store"
        THEN Repo(TRUE, <<>>, st, nid, encryptedPrompt)
        ELSE Repo(FALSE, <<[encryptedPrompt.value EXCEPT !.id = nid]>>,
                  dbAdd(dbRemove(st, prompt.id), nid, encryptedPrompt.value),
                  nid + 1, encryptedPrompt)
  IN  IF prompt.id = NoId
      THEN Repo(TRUE, <<>>, st, nid, NoGateway(slot))
      ELSE Update(encryptPrompt(prompt, slot, newKey, salt, fault))

updatePrompt_NoIdCheck(prompt, st, nid, slot, newKey, salt, fault) ==
  LET Put(record, encryptedPrompt) ==
        Repo(FALSE, <<record>>, dbUpdate(st, record), nid, encryptedPrompt)
      Update(encryptedPrompt) ==
        IF encryptedPrompt.threw \/ fault = "store"
        THEN Repo(TRUE, <<>>, st, nid, encryptedPrompt)
        ELSE Put([encryptedPrompt.value EXCEPT !.id = prompt.id],
                 encryptedPrompt)
  IN  Update(encryptPrompt(prompt, slot, newKey, salt, fault))

\* fault "store" is dbOperations.update rejecting.
updatePrompt(prompt, st, nid, slot, newKey, salt, fault) ==
  LET Put(record, encryptedPrompt) ==
        Repo(FALSE, <<record>>, dbUpdate(st, record), nid, encryptedPrompt)
      Update(encryptedPrompt) ==
        IF encryptedPrompt.threw \/ fault = "store"
        THEN Repo(TRUE, <<>>, st, nid, encryptedPrompt)
        ELSE Put([encryptedPrompt.value EXCEPT !.id = prompt.id],
                 encryptedPrompt)
  IN  IF prompt.id = NoId
      THEN Repo(TRUE, <<>>, st, nid, NoGateway(slot))
      ELSE Update(encryptPrompt(prompt, slot, newKey, salt, fault))

deletePrompt(id, st, nid, slot) ==
  Repo(FALSE, <<>>, dbRemove(st, id), nid, NoGateway(slot))

\* The suffix ' (复制)' that copyPrompt puts behind the title.
CopySuffix == "(copy)"

copyPrompt_StoresPlain(promptId, st, nid, slot, newKey, salt, dfault, efault, date) ==
  LET NewPromptData(originalPrompt) ==
        [id          |-> NoId,
         title       |-> Append(originalPrompt.title, CopySuffix),
         type        |-> originalPrompt.type,
         content     |-> originalPrompt.content,
         description |-> originalPrompt.description,
         examples    |-> originalPrompt.examples,
         isPublic    |-> "false",
         userId      |-> originalPrompt.userId,
         createdAt   |-> date,
         updatedAt   |-> date]
      Copy(got) ==
        IF got.threw \/ got.ret = <<>>
        THEN Repo(TRUE, <<>>, st, nid, got)
        ELSE Repo(FALSE, <<[NewPromptData(got.ret[1]) EXCEPT !.id = nid]>>,
                  dbAdd(st, nid, NewPromptData(got.ret[1])), nid + 1, got)
  IN  Copy(getPromptById(promptId, TRUE, st, nid, slot, newKey, dfault))

\* The copy keeps the visibility of the original.
copyPrompt_KeepsPublic(promptId, st, nid, slot, newKey, salt, dfault, efault, date) ==
  LET Both(got, a) ==
        [a EXCEPT !.keys = got.keys \cup a.keys,
                  !.writes = got.writes + a.writes,
                  !.caught = got.caught \/ a.caught]
      NewPromptData(originalPrompt) ==
        [id          |-> NoId,
         title       |-> Append(originalPrompt.title, CopySuffix),
         type        |-> originalPrompt.type,
         content     |-> originalPrompt.content,
         description |-> originalPrompt.description,
         examples    |-> originalPrompt.examples,
         isPublic    |-> originalPrompt.isPublic,
         userId      |-> originalPrompt.userId,
         createdAt   |-> date,
         updatedAt   |-> date]
      Copy(got) ==
        IF got.threw \/ got.ret = <<>>
        THEN Repo(TRUE, <<>>, st, nid, got)
        ELSE Both(got, addPrompt(NewPromptData(got.ret[1]), st, nid, got.slot,
                                 newKey, salt, efault))
  IN  Copy(getPromptById(promptId, TRUE, st, nid, slot, newKey, dfault))

\* dfault is what goes wrong in the decryptPrompt of the read, efault in the
\* encryptPrompt of the add.
copyPrompt(promptId, st, nid, slot, newKey, salt, dfault, efault, date) ==
  LET Both(got, a) ==
        [a EXCEPT !.keys = got.keys \cup a.keys,
                  !.writes = got.writes + a.writes,
                  !.caught = got.caught \/ a.caught]
      NewPromptData(originalPrompt) ==
        [id          |-> NoId,
         title       |-> Append(originalPrompt.title, CopySuffix),
         type        |-> originalPrompt.type,
         content     |-> originalPrompt.content,
         description |-> originalPrompt.description,
         examples    |-> originalPrompt.examples,
         isPublic    |-> "false",
         userId      |-> originalPrompt.userId,
         createdAt   |-> date,
         updatedAt   |-> date]
      Copy(got) ==
        IF got.threw \/ got.ret = <<>>
        THEN Repo(TRUE, <<>>, st, nid, got)
        ELSE Both(got, addPrompt(NewPromptData(got.ret[1]), st, nid, got.slot,
                                 newKey, salt, efault))
  IN  Copy(getPromptById(promptId, TRUE, st, nid, slot, newKey, dfault))

\* ------------------------------------------------------------------ calls
DecFaults == {"none", "key", "detect"}
NoFaults(n) == [i \in 1..n |-> "none"]

\* What a user types into the content field.
UserTexts == {<<>>, <<"a">>}

\* Every text of at most n envelope layers: what a user types, and what any
\* key, the one of the old scheme included, has made of such a text.
\* The text under every envelope of a text.
RECURSIVE Innermost(_)
Innermost(text) ==
  IF IsEnvelope(text) THEN Innermost(SubSeq(text, 6, Len(text))) ELSE text

RECURSIVE TextsUpTo(_)
TextsUpTo(n) ==
  IF n = 0
  THEN UserTexts
  ELSE LET inner == TextsUpTo(n - 1)
       IN  inner \cup {AesEncrypt(t, k, s) : t \in inner, k \in AllKeys, s \in Salts}

CipherTexts == TextsUpTo(MaxWrap)

Title == <<"T">>

\* The value of an optional field that a record does not carry.
Absent == "absent"

\* The optional fields as the create form leaves them, and as a record
\* written with an owner and a visibility carries them.
FormExtras ==
  [description |-> "", examples |-> <<>>, userId |-> Absent,
   isPublic |-> Absent]

OwnedExtras ==
  [description |-> "d", examples |-> <<"e">>, userId |-> "u1",
   isPublic |-> "true"]

\* A record that has not been stored yet, created at `date`.
NewPrompt(type, content, date, extras) ==
  [id |-> NoId, title |-> Title, type |-> type, content |-> content,
   description |-> extras.description, examples |-> extras.examples,
   userId |-> extras.userId, isPublic |-> extras.isPublic,
   createdAt |-> date, updatedAt |-> date]

Record(content) ==
  [NewPrompt("ai_writing", content, 0, FormExtras) EXCEPT !.id = 1]

Blank ==
  [op |-> "none", threw |-> FALSE, caught |-> FALSE, flag |-> FALSE,
   arg |-> <<>>, ret |-> <<>>, intext |-> <<>>, text |-> <<>>,
   k1 |-> NoKey, k2 |-> NoKey, calls |-> 0, faults |-> <<>>, by |-> "",
   input |-> <<>>]

Min(a, b) == IF a < b THEN a ELSE b

\* The value WordArray.random gives a call: a key that differs from whatever
\* the slot holds, one value standing for every such value.
KeyDraws == {CHOOSE k \in Keys : k # keySlot}

\* The key slot and its history after a call that returned r.
Slot(r) ==
  /\ keySlot' = r.slot
  /\ keysReturned' = keysReturned \cup r.keys
  /\ slotWrites' = Min(slotWrites + r.writes, MaxWrites)
  /\ cryptoFailed' = (cryptoFailed \/ r.caught)

\* A Repository call by caller `by` that returned r.
Called(by, op, r, arg, flag) ==
  /\ store' = r.store
  /\ nextId' = r.nextId
  /\ Slot(r)
  /\ last' = [Blank EXCEPT !.op = op, !.threw = r.threw, !.caught = r.caught,
                           !.flag = flag, !.arg = arg, !.ret = r.ret,
                           !.k2 = r.slot, !.by = by]
  /\ UNCHANGED <<now, loop, tabs, selections, selNextId, adding>>

\* A Repository call that returned r to a caller other than the prompt page.
Returned(op, r, arg, flag) ==
  /\ Called("", op, r, arg, flag)
  /\ UNCHANGED <<page, selections, selNextId, adding>>

AddPrompt(types, salts, faults, extras) ==
  /\ nextId <= MaxPrompts
  /\ \E content \in UserTexts, type \in types, newKey \in KeyDraws,
        salt \in salts, fault \in faults, extra \in extras :
       LET prompt == NewPrompt(type, content, now, extra)
       IN  \E r \in {addPrompt(prompt, store, nextId, keySlot, newKey, salt,
                                fault)} :
             Returned("addPrompt", r, <<prompt>>, FALSE)

\* The edit form: a record read from the store, its content kept as read or
\* replaced by what the user typed, saved with or without its id.
UpdatePromptNoId(i) ==
  LET prompt == [store[i] EXCEPT !.id = NoId, !.updatedAt = now,
                                 !.isPublic = Absent]
  IN  \E r \in {updatePrompt(prompt, store, nextId, keySlot, "k1", "s1",
                              "none")} :
        Returned("updatePrompt", r, <<prompt>>, FALSE)

UpdatePrompt(salts, faults) ==
  \E i \in 1..Len(store) :
    \/ \E newKey \in KeyDraws, salt \in salts, fault \in faults,
          content \in UserTexts \cup {store[i].content} :
         LET prompt == [store[i] EXCEPT !.content = content,
                                        !.updatedAt = now,
                                        !.isPublic = Absent]
         IN  /\ Wraps(content) <= MaxWrap
             /\ \E r \in {updatePrompt(prompt, store, nextId, keySlot, newKey,
                                      salt, fault)} :
                  Returned("updatePrompt", r, <<prompt>>, FALSE)
    \/ UpdatePromptNoId(i)

DeletePrompt ==
  \E i \in 1..Len(store) :
    \E r \in {deletePrompt(store[i].id, store, nextId, keySlot)} :
      Returned("deletePrompt", r, <<>>, FALSE)

GetAllPrompts ==
  \E decryptContents \in BOOLEAN, newKey \in KeyDraws :
    \E r \in {getAllPrompts(decryptContents, store, nextId, keySlot, newKey,
                            NoFaults(Len(store)))} :
      Returned("getAllPrompts", r, <<>>, decryptContents)

GetPromptsByType(types) ==
  \E type \in types, decryptContents \in BOOLEAN, newKey \in KeyDraws :
    \E r \in {getPromptsByType(type, decryptContents, store, nextId, keySlot,
                               newKey, NoFaults(Len(store)))} :
      Returned("getPromptsByType", r, <<[type |-> type]>>, decryptContents)

GetPromptById ==
  \E id \in 1..MaxPrompts, decryptContent \in BOOLEAN, newKey \in KeyDraws :
    \E r \in {getPromptById(id, decryptContent, store, nextId, keySlot,
                            newKey, "none")} :
      Returned("getPromptById", r, <<>>, decryptContent)

CopyPrompt(salts, faults) ==
  \E id \in 1..MaxPrompts, newKey \in KeyDraws, salt \in salts, efault \in faults :
    /\ dbHas(store, id) => nextId <= MaxPrompts
    /\ \E r \in {copyPrompt(id, store, nextId, keySlot, newKey, salt, "none",
                            efault, now)} :
         Returned("copyPrompt", r,
                  IF dbHas(store, id) THEN <<dbGetById(store, id)>> ELSE <<>>,
                  TRUE)

\* A Gateway call that returned r; k1 is the slot as the call found it, k2 as
\* it left it.
Gateway(op, r, arg, ret, text) ==
  /\ Slot(r)
  /\ last' = [Blank EXCEPT !.op = op, !.threw = r.threw, !.caught = r.caught,
                           !.arg = arg, !.ret = ret, !.text = text,
                           !.k1 = keySlot, !.k2 = r.slot,
                           !.input = <<r.input>>]
  /\ UNCHANGED <<store, nextId, now, loop, tabs, page, selections, selNextId, adding>>

\* A caller that needs the text of a prompt (the AI features).
DecryptPromptOnDemand(prompts, faults) ==
  \E prompt \in prompts, newKey \in KeyDraws, fault \in faults :
    \E r \in {decryptPromptOnDemand(prompt, keySlot, newKey, fault)} :
      Gateway("decryptPromptOnDemand", r, <<prompt>>, <<>>, r.value)

Stored == {store[i] : i \in 1..Len(store)}

\* The prompt page as it mounts: no prompts loaded, no modal, no alert.
NoPage ==
  [prompts |-> <<>>, selectedPrompt |-> <<>>, editedPrompt |-> <<>>,
   showDetailModal |-> FALSE, showDeleteModal |-> FALSE, isEditing |-> FALSE,
   alert |-> "", event |-> "mount"]

\* The addUserPromptSelection calls that can be in progress together.
Calls == {"c1", "c2"}

\* A promptId as JavaScript holds it: a string, or the number that an
\* auto-incremented key of the prompt store is.
Str(digits) == [t |-> "string", v |-> digits]
Num(digits) == [t |-> "number", v |-> digits]

\* No call in progress.
NoCall ==
  [pc |-> "idle", promptId |-> Str("1"), userId |-> "", withId |-> TRUE,
   existingSelections |-> <<>>]

NoAdding == [c \in Calls |-> NoCall]

\* Two browsing contexts (tabs) of one origin: one localStorage, one store.
Tabs == {"t1", "t2"}

\* A tab that has not called the key getter yet.
NoTab == [pc |-> "getItem", storedKey |-> NoKey, key |-> NoKey, wrote |-> 0]

\* No decryptPrompts call in progress.
NoLoop ==
  [pc |-> "idle", prompts |-> <<>>, faults |-> <<>>, next |-> 1,
   inflight |-> {}, decryptedPrompts |-> <<>>, log |-> <<>>, slot0 |-> NoKey]

Init ==
  /\ keySlot = NoKey
  /\ store = <<>>
  /\ nextId = 1
  /\ now = 0
  /\ last = Blank
  /\ keysReturned = {}
  /\ slotWrites = 0
  /\ cryptoFailed = FALSE
  /\ loop = NoLoop
  /\ tabs = [t \in Tabs |-> NoTab]
  /\ page = NoPage
  /\ selections = <<>>
  /\ selNextId = 1
  /\ adding = NoAdding

\* The repository as the prompt pages use it: every prompt of one type, and no
\* envelope that another key has made, so that one salt stands for every salt.
Next ==
  \/ AddPrompt({"ai_writing"}, {"s1"}, Faults, {FormExtras})
  \/ UpdatePrompt({"s1"}, Faults)
  \/ DeletePrompt
  \/ GetAllPrompts
  \/ GetPromptsByType({"ai_writing"})
  \/ GetPromptById
  \/ CopyPrompt({"s1"}, Faults)
  \/ DecryptPromptOnDemand(Stored, {"none"})

Spec == Init /\ [][Next]_vars

\* ------------------------------------------------- the cipher and the gateway
\* encryptText with key k1, then decryptText with key k2.
RoundTrip ==
  \E p \in CipherTexts, k1 \in Keys, k2 \in Keys, salt \in Salts :
    LET encrypted == encryptText(p, k1, salt, FALSE)
        decrypted == decryptText(encrypted.text, k2)
    IN  /\ last' = [Blank EXCEPT !.op = "roundTrip", !.intext = p,
                                 !.k1 = k1, !.k2 = k2,
                                 !.threw = decrypted.threw,
                                 !.text = decrypted.text]
        /\ UNCHANGED <<keySlot, store, nextId, now, keysReturned, slotWrites,
                       cryptoFailed, loop, tabs, page, selections, selNextId, adding>>

\* A text a user typed that happens to start with the marker.
MarkedText == Marker \o <<"a">>

\* decryptText(text, key) for any text and key.
DecryptText ==
  \E text \in CipherTexts \cup {MarkedText}, key \in Keys :
    \E decrypted \in {decryptText(text, key)} :
      /\ last' = [Blank EXCEPT !.op = "decryptText", !.intext = text,
                               !.k2 = key, !.threw = decrypted.threw,
                               !.text = decrypted.text]
      /\ UNCHANGED <<keySlot, store, nextId, now, keysReturned, slotWrites,
                     cryptoFailed, loop, tabs, page, selections, selNextId, adding>>

\* isEncrypted(text, key) for any text and key.
IsEncrypted ==
  \E text \in CipherTexts \cup {MarkedText}, key \in Keys :
    \E r \in {isEncryptedCall(text, key)} :
      /\ last' = [Blank EXCEPT !.op = "isEncrypted", !.intext = text,
                               !.k2 = key, !.threw = r.threw,
                               !.flag = r.result, !.calls = r.decrypts]
      /\ UNCHANGED <<keySlot, store, nextId, now, keysReturned, slotWrites,
                     cryptoFailed, loop, tabs, page, selections, selNextId, adding>>

EncryptPrompt(faults) ==
  \E content \in CipherTexts, newKey \in KeyDraws, salt \in Salts,
     fault \in faults :
    \E r \in {encryptPrompt(Record(content), keySlot, newKey, salt, fault)} :
      Gateway("encryptPrompt", r, <<Record(content)>>, <<r.value>>, <<>>)

\* encryptPrompt(encryptPrompt(record)), nothing failing.
EncryptPromptTwice ==
  \E content \in CipherTexts, newKey \in KeyDraws, s1 \in Salts,
     s2 \in Salts :
    \E first \in {encryptPrompt(Record(content), keySlot, newKey, s1, "none")} :
      \E second \in {encryptPrompt(first.value, first.slot, newKey, s2, "none")} :
        Gateway("encryptPromptTwice",
                [second EXCEPT !.keys = first.keys \cup second.keys,
                               !.writes = first.writes + second.writes],
                <<Record(content)>>, <<first.value, second.value>>, <<>>)

DecryptPrompt(faults) ==
  \E content \in CipherTexts, newKey \in KeyDraws, fault \in faults :
    \E r \in {decryptPrompt(Record(content), keySlot, newKey, fault)} :
      Gateway("decryptPrompt", r, <<Record(content)>>, <<r.value>>, <<>>)

CipherPrompts == {Record(content) : content \in CipherTexts}

NextCipher ==
  \/ RoundTrip
  \/ DecryptText
  \/ IsEncrypted
  \/ EncryptPrompt(Faults)
  \/ EncryptPromptTwice
  \/ DecryptPrompt(DecFaults)
  \/ DecryptPromptOnDemand(CipherPrompts, DecFaults)

SpecCipher == Init /\ [][NextCipher]_vars

\* ------------------------------------------- decryptPrompts, await by await
\* The contents of the lists: a plain text and its envelopes under either key.
ListContents ==
  {<<"a">>, AesEncrypt(<<"a">>, "k1", "s1"), AesEncrypt(<<"a">>, "k2", "s1")}

\* The lists decryptPrompts is called with: at most MaxPrompts records, the
\* record at index i with id i.
PromptLists ==
  UNION {{[i \in 1..n |-> [Record(contents[i]) EXCEPT !.id = i]] :
            contents \in [1..n -> ListContents]} : n \in 0..MaxPrompts}

awaitsEach_NoAwait(inflight) == TRUE

\* `await decryptPrompt(prompt)`: the loop body does not go on to the next
\* element while a decryptPrompt is pending.
awaitsEach(inflight) == inflight = {}

\* decryptPrompts(prompts) is called; faults[i] is what goes wrong while
\* element i is decrypted.
CallDecryptPrompts ==
  /\ loop.pc # "running"
  /\ \E prompts \in PromptLists :
       \E faults \in [1..Len(prompts) -> DecFaults] :
         loop' = [NoLoop EXCEPT !.pc = "running", !.prompts = prompts,
                                !.faults = faults, !.slot0 = keySlot]
  /\ last' = Blank
  /\ UNCHANGED <<keySlot, store, nextId, now, keysReturned, slotWrites,
                 cryptoFailed, tabs, page, selections, selNextId, adding>>

\* The loop calls decryptPrompt for its next element.
StartElement ==
  /\ loop.pc = "running"
  /\ loop.next <= Len(loop.prompts)
  /\ awaitsEach(loop.inflight)
  /\ loop' = [loop EXCEPT !.next = @ + 1,
                          !.inflight = @ \cup {loop.next},
                          !.log = Append(@, [ev |-> "start", i |-> loop.next])]
  /\ UNCHANGED <<keySlot, store, nextId, now, last, keysReturned, slotWrites,
                 cryptoFailed, tabs, page, selections, selNextId, adding>>

\* A pending decryptPrompt settles: its record is pushed, or its rejection
\* ends the call.
FinishElement ==
  /\ loop.pc = "running"
  /\ \E i \in loop.inflight, newKey \in KeyDraws :
       \E r \in {decryptPrompt(loop.prompts[i], keySlot, newKey,
                                loop.faults[i])} :
         /\ Slot(r)
         /\ loop' = [loop EXCEPT
                       !.pc = IF r.threw THEN "done" ELSE @,
                       !.inflight = @ \ {i},
                       !.decryptedPrompts = IF r.threw THEN @
                                            ELSE Append(@, r.value),
                       !.log = Append(@, [ev |-> "end", i |-> i])]
         /\ last' = IF r.threw
                    THEN [Blank EXCEPT !.op = "decryptPrompts", !.threw = TRUE,
                                       !.arg = loop.prompts,
                                       !.faults = loop.faults,
                                       !.k1 = loop.slot0, !.k2 = r.slot]
                    ELSE last
  /\ UNCHANGED <<store, nextId, now, tabs, page, selections, selNextId, adding>>

\* The loop is over and decryptPrompts returns the list it has built.
ReturnDecryptPrompts ==
  /\ loop.pc = "running"
  /\ loop.next > Len(loop.prompts)
  /\ loop.inflight = {}
  /\ loop' = [loop EXCEPT !.pc = "done"]
  /\ last' = [Blank EXCEPT !.op = "decryptPrompts", !.arg = loop.prompts,
                           !.ret = loop.decryptedPrompts,
                           !.faults = loop.faults,
                           !.k1 = loop.slot0, !.k2 = keySlot]
  /\ UNCHANGED <<keySlot, store, nextId, now, keysReturned, slotWrites,
                 cryptoFailed, tabs, page, selections, selNextId, adding>>

NextList ==
  \/ CallDecryptPrompts
  \/ StartElement
  \/ FinishElement
  \/ ReturnDecryptPrompts

SpecList == Init /\ [][NextList]_vars

\* ----------------------------------------- first use of the key in two tabs
setItem_KeepsFirst(slot, value) == IF slot # NoKey THEN slot ELSE value

\* localStorage.setItem: the slot holds the value written last.
setItem(slot, value) == value

\* generateLocalEncryptionKey in tab t, first statement: getItem and the test
\* of what it returned.
TabGetItem(t) ==
  /\ tabs[t].pc = "getItem"
  /\ tabs' = [tabs EXCEPT ![t] =
                IF keySlot # NoKey
                THEN [@ EXCEPT !.pc = "haveKey", !.storedKey = keySlot,
                               !.key = keySlot]
                ELSE [@ EXCEPT !.pc = "setItem"]]
  /\ keysReturned' = IF keySlot # NoKey THEN keysReturned \cup {keySlot}
                     ELSE keysReturned
  /\ UNCHANGED <<keySlot, store, nextId, now, last, slotWrites, cryptoFailed,
                 loop, page, selections, selNextId, adding>>

\* generateLocalEncryptionKey in tab t, the rest: a random key is drawn,
\* written to the slot and returned.
TabSetItem(t) ==
  /\ tabs[t].pc = "setItem"
  /\ \E newKey \in Keys :
       /\ keySlot' = setItem(keySlot, newKey)
       /\ slotWrites' = Min(slotWrites + 1, MaxWrites)
       /\ tabs' = [tabs EXCEPT ![t] = [@ EXCEPT !.pc = "haveKey",
                                                !.key = newKey,
                                                !.wrote = slotWrites']]
       /\ keysReturned' = keysReturned \cup {newKey}
  /\ UNCHANGED <<store, nextId, now, last, cryptoFailed, loop, page, selections, selNextId, adding>>

\* addPrompt in tab t goes on with the key its getter returned: the record is
\* encrypted under that key and added to the store.
TabAddPrompt(t) ==
  /\ tabs[t].pc = "haveKey"
  /\ nextId <= MaxPrompts
  /\ \E salt \in Salts :
       LET prompt == NewPrompt("ai_writing", <<"a">>, now, FormExtras)
       IN  \E r \in {addPrompt(prompt, store, nextId, tabs[t].key,
                                tabs[t].key, salt, "none")} :
             /\ store' = r.store
             /\ nextId' = r.nextId
             /\ last' = [Blank EXCEPT !.op = "addPrompt", !.arg = <<prompt>>,
                                      !.ret = r.ret, !.k2 = tabs[t].key]
  /\ tabs' = [tabs EXCEPT ![t] = [@ EXCEPT !.pc = "done"]]
  /\ UNCHANGED <<keySlot, now, keysReturned, slotWrites, cryptoFailed, loop, page, selections, selNextId, adding>>

\* A later visit: the tab starts over with a new call.
TabReload(t) ==
  /\ tabs[t].pc = "done"
  /\ tabs' = [tabs EXCEPT ![t] = NoTab]
  /\ UNCHANGED <<keySlot, store, nextId, now, last, keysReturned, slotWrites,
                 cryptoFailed, loop, page, selections, selNextId, adding>>

NextRace ==
  \/ \E t \in Tabs : TabGetItem(t)
  \/ \E t \in Tabs : TabSetItem(t)
  \/ \E t \in Tabs : TabAddPrompt(t)
  \/ \E t \in Tabs : TabReload(t)
  \/ GetPromptById
  \/ DeletePrompt

SpecRace == Init /\ [][NextRace]_vars

\* ------------------------------------------------------ writes and the clock
\* Time passes: the next `new Date()` is later.  Between two ticks every
\* `new Date()` gives the same value.
Tick ==
  /\ now < MaxNow
  /\ now' = now + 1
  /\ UNCHANGED <<keySlot, store, nextId, last, keysReturned, slotWrites,
                 cryptoFailed, loop, tabs, page, selections, selNextId, adding>>

Ids(st) == {st[i].id : i \in 1..Len(st)}

NextTime ==
  \/ Tick
  \/ AddPrompt({"ai_writing"}, {"s1"}, {"none"}, {OwnedExtras})
  \/ UpdatePrompt({"s1"}, {"none"})
  \/ CopyPrompt({"s1"}, {"none"})

SpecTime == Init /\ [][NextTime]_vars

\* ------------------------------------------------- lists of several types
PromptTypes == {"ai_writing", "ai_polishing"}

\* Prompts of two types, written at different times, and the two list reads.
NextTypes ==
  \/ Tick
  \/ AddPrompt(PromptTypes, {"s1"}, {"none"}, {FormExtras})
  \/ UpdatePrompt({"s1"}, {"none"})
  \/ GetAllPrompts
  \/ GetPromptsByType(PromptTypes)

SpecTypes == Init /\ [][NextTypes]_vars

\* ---------------------------------------------------------- the prompt page
PageType == "ai_writing"

\* What happens to the page's state and to nothing else.
PageOnly(newPage) ==
  /\ page' = newPage
  /\ UNCHANGED <<keySlot, store, nextId, now, last, keysReturned, slotWrites,
                 cryptoFailed, loop, tabs, selections, selNextId, adding>>

\* The effect that loads the list: getPromptsByType(promptType), no flag.
LoadPrompts ==
  \E newKey \in KeyDraws :
    \E r \in {getPromptsByType(PageType, FALSE, store, nextId, keySlot, newKey,
                               NoFaults(Len(store)))} :
      /\ Called("page", "getPromptsByType", r, <<>>, FALSE)
      /\ page' = [page EXCEPT !.prompts = IF r.threw THEN <<>> ELSE r.ret,
                              !.event = "loadPrompts", !.alert = ""]

\* The create form is submitted.
HandleSubmit ==
  /\ nextId <= MaxPrompts
  /\ \E content \in UserTexts, newKey \in KeyDraws :
       LET promptData == NewPrompt(PageType, content, now, FormExtras)
       IN  \E r \in {addPrompt(promptData, store, nextId, keySlot, newKey,
                                "s1", "none")} :
             /\ Called("page", "addPrompt", r, <<promptData>>, FALSE)
             /\ page' = IF r.threw
                        THEN [page EXCEPT !.event = "handleSubmit",
                                          !.alert = "create failed"]
                        ELSE [page EXCEPT
                                !.prompts = sortByUpdatedAt(r.ret \o @),
                                !.event = "handleSubmit", !.alert = ""]

\* openDetailModal(prompt, editMode).  The page calls it with a record of its
\* list; a record without id is the case the guards on `.id` are written for.
OpenDetailModal ==
  \E i \in 1..Len(page.prompts), editMode \in BOOLEAN :
    \E prompt \in {page.prompts[i], [page.prompts[i] EXCEPT !.id = NoId]} :
      PageOnly([page EXCEPT !.selectedPrompt = <<prompt>>,
                            !.showDetailModal = TRUE,
                            !.isEditing = editMode,
                            !.editedPrompt = IF editMode THEN <<prompt>>
                                             ELSE <<>>,
                            !.event = "openDetailModal", !.alert = ""])

OnEdit ==
  /\ page.showDetailModal /\ page.selectedPrompt # <<>>
  /\ PageOnly([page EXCEPT !.isEditing = TRUE,
                           !.editedPrompt = page.selectedPrompt,
                           !.event = "onEdit", !.alert = ""])

\* The content field of the edit form is changed.
HandleInputChange ==
  /\ page.showDetailModal /\ page.isEditing /\ page.editedPrompt # <<>>
  /\ \E content \in UserTexts :
       PageOnly([page EXCEPT !.editedPrompt[1].content = content,
                             !.event = "handleInputChange", !.alert = ""])

\* setPrompts(prev => prev.map(p => p.id === updated.id ? updated : p).sort(...))
Replaced(prompts, updated) ==
  sortByUpdatedAt([i \in 1..Len(prompts) |->
                     IF prompts[i].id = updated.id THEN updated
                     ELSE prompts[i]])

\* onSave of the detail view; fault is what goes wrong in updatePrompt.
OnSave ==
  /\ page.showDetailModal /\ page.isEditing
  /\ \/ /\ page.editedPrompt = <<>> \/ page.editedPrompt[1].id = NoId
        /\ PageOnly([page EXCEPT !.event = "onSave", !.alert = ""])
     \/ /\ page.editedPrompt # <<>>
        /\ page.editedPrompt[1].id # NoId
        /\ Wraps(page.editedPrompt[1].content) <= MaxWrap
        /\ \E newKey \in KeyDraws, fault \in {"none", "store"} :
             LET updatedData == [page.editedPrompt[1] EXCEPT
                                   !.updatedAt = now, !.isPublic = Absent]
             IN  \E r \in {updatePrompt(updatedData, store, nextId, keySlot,
                                      newKey, "s1", fault)} :
                   /\ Called("page", "updatePrompt", r, <<updatedData>>, FALSE)
                   /\ page' = IF r.threw
                              THEN [page EXCEPT !.event = "onSave",
                                                !.alert = "update failed"]
                              ELSE [page EXCEPT
                                      !.prompts = Replaced(@, r.ret[1]),
                                      !.showDetailModal = FALSE,
                                      !.isEditing = FALSE,
                                      !.event = "onSave", !.alert = ""]

OnCancel ==
  /\ page.showDetailModal
  /\ PageOnly([page EXCEPT !.showDetailModal = FALSE, !.isEditing = FALSE,
                           !.event = "onCancel", !.alert = ""])

\* The page, and a caller beside it that hands updatePrompt a record without
\* id.
NextPage ==
  \/ LoadPrompts
  \/ HandleSubmit
  \/ OpenDetailModal
  \/ OnEdit
  \/ HandleInputChange
  \/ OnSave
  \/ OnCancel
  \/ \E i \in 1..Len(store) : UpdatePromptNoId(i)

SpecPage == Init /\ [][NextPage]_vars

\* ------------------------------------------- the page: delete and copy
\* onDelete of the detail view: openDeleteModal(selectedPrompt).  The detail
\* modal stays open under the delete modal.
OnDelete ==
  /\ page.showDetailModal /\ page.selectedPrompt # <<>>
  /\ PageOnly([page EXCEPT !.showDeleteModal = TRUE, !.event = "onDelete",
                           !.alert = ""])

\* The delete button of the delete modal.
HandleDelete ==
  /\ page.showDeleteModal /\ page.selectedPrompt # <<>>
  /\ \/ /\ page.selectedPrompt[1].id = NoId
        /\ PageOnly([page EXCEPT !.event = "handleDelete", !.alert = ""])
     \/ /\ page.selectedPrompt[1].id # NoId
        /\ \E r \in {deletePrompt(page.selectedPrompt[1].id, store, nextId,
                                   keySlot)} :
             /\ Called("page", "deletePrompt", r, <<>>, FALSE)
             /\ page' = [page EXCEPT
                           !.prompts = SelectSeq(@, LAMBDA p :
                                         p.id # page.selectedPrompt[1].id),
                           !.showDeleteModal = FALSE,
                           !.event = "handleDelete", !.alert = ""]

handleCopyPrompt_ClosesOnError(pg, r) ==
  IF r.threw
  THEN [pg EXCEPT !.showDetailModal = FALSE, !.event = "handleCopyPrompt",
                  !.alert = "copy failed"]
  ELSE [pg EXCEPT !.prompts = sortByUpdatedAt(r.ret \o @),
                  !.showDetailModal = FALSE,
                  !.event = "handleCopyPrompt", !.alert = "copied"]

\* The page after handleCopyPrompt, whose copyPrompt call ended as r.
handleCopyPrompt(pg, r) ==
  IF r.threw
  THEN [pg EXCEPT !.event = "handleCopyPrompt", !.alert = "copy failed"]
  ELSE [pg EXCEPT !.prompts = sortByUpdatedAt(r.ret \o @),
                  !.showDetailModal = FALSE,
                  !.event = "handleCopyPrompt", !.alert = "copied"]

\* onCopy of the detail view: selectedPrompt.id && handleCopyPrompt(id).
OnCopy ==
  /\ page.showDetailModal /\ page.selectedPrompt # <<>>
  /\ \/ /\ page.selectedPrompt[1].id = NoId
        /\ PageOnly([page EXCEPT !.event = "onCopy", !.alert = ""])
     \/ /\ page.selectedPrompt[1].id # NoId
        /\ dbHas(store, page.selectedPrompt[1].id) => nextId <= MaxPrompts
        /\ \E newKey \in KeyDraws :
             \E r \in {copyPrompt(page.selectedPrompt[1].id, store, nextId,
                                  keySlot, newKey, "s1", "none", "none", now)} :
               /\ Called("page", "copyPrompt", r,
                         IF dbHas(store, page.selectedPrompt[1].id)
                         THEN <<dbGetById(store, page.selectedPrompt[1].id)>>
                         ELSE <<>>,
                         TRUE)
               /\ page' = handleCopyPrompt(page, r)

\* The page, and another tab of the application that deletes prompts.
NextCopy ==
  \/ LoadPrompts
  \/ HandleSubmit
  \/ OpenDetailModal
  \/ OnDelete
  \/ HandleDelete
  \/ OnCopy
  \/ OnCancel
  \/ DeletePrompt

SpecCopy == Init /\ [][NextCopy]_vars

\* ------------------------------------------------- the selection repository
\* String(value): a string stays what it is, a number becomes its digits.
String(value) == [value EXCEPT !.t = "string"]

PromptIdValues == {Str("1"), Num("1")}

\* A userId argument that is left out.
Undefined == "undefined"

UserIdValues == {Undefined, "u1", ""}

\* The default parameter `userId: string = 'local_user'`.
DefaultUser(userId) == IF userId = Undefined THEN "local_user" ELSE userId

\* `userId ? ... : ...`: undefined and the empty string are falsy.
Truthy(userId) == userId \notin {Undefined, ""}

\* sel.promptId === promptId && sel.userId === userId
Matches(sel, promptId, userId) ==
  sel.promptId = promptId /\ sel.userId = userId

\* Array.prototype.find as a list of at most one element.
FindFirst(list, promptId, userId) ==
  LET hits == {i \in 1..Len(list) : Matches(list[i], promptId, userId)}
  IN  IF hits = {} THEN <<>>
      ELSE <<list[CHOOSE i \in hits : \A j \in hits : i <= j]>>

getUserPromptSelections(rows, userId) ==
  LET Ids_(userSelections) ==
        [i \in 1..Len(userSelections) |-> String(userSelections[i].promptId)]
  IN  Ids_(IF Truthy(userId)
           THEN SelectSeq(dbGetAll(rows), LAMBDA selection : selection.userId = userId)
           ELSE dbGetAll(rows))

isPromptSelectedByUser(rows, promptId, userId) ==
  LET Includes(list, x) == \E i \in 1..Len(list) : list[i] = x
  IN  Includes(getUserPromptSelections(rows, DefaultUser(userId)),
               String(promptId))

\* Without the existence check.
addUserPromptSelection_NoCheck(existingSelections, rows, nid, promptId, userId, date, withId) ==
  LET newSelection ==
        [id |-> IF withId THEN nid ELSE NoId, userId |-> DefaultUser(userId),
         promptId |-> promptId, createdAt |-> date]
  IN  [ret |-> <<newSelection>>, rows |-> Append(rows, newSelection),
       nextId |-> IF withId THEN nid + 1 ELSE nid, added |-> TRUE]

\* addUserPromptSelection from the moment getAll has resolved with
\* existingSelections; rows is the store when dbOperations.add runs, withId
\* whether the store assigns the new record an id.
addUserPromptSelection(existingSelections, rows, nid, promptId, userId, date, withId) ==
  LET newSelection ==
        [id |-> IF withId THEN nid ELSE NoId, userId |-> DefaultUser(userId),
         promptId |-> promptId, createdAt |-> date]
      alreadyExists ==
        \E i \in 1..Len(existingSelections) :
          Matches(existingSelections[i], promptId, DefaultUser(userId))
  IN  IF alreadyExists
      THEN [ret |-> FindFirst(existingSelections, promptId, DefaultUser(userId)),
            rows |-> rows, nextId |-> nid, added |-> FALSE]
      ELSE [ret |-> <<newSelection>>, rows |-> Append(rows, newSelection),
            nextId |-> IF withId THEN nid + 1 ELSE nid, added |-> TRUE]

\* The store after removeUserPromptSelection.
removeUserPromptSelection(rows, promptId, userId) ==
  LET Remove(selectionToRemove) ==
        IF selectionToRemove # <<>> /\ selectionToRemove[1].id # NoId
        THEN dbRemove(rows, selectionToRemove[1].id)
        ELSE rows
  IN  Remove(FindFirst(dbGetAll(rows), promptId, DefaultUser(userId)))

\* A call of the selection repository has returned.
SelReturned(op, promptId, userId, ret, flag, rows, nid) ==
  /\ last' = [Blank EXCEPT !.op = op,
                           !.arg = <<[promptId |-> promptId, userId |-> userId]>>,
                           !.ret = ret, !.flag = flag]
  /\ selections' = rows
  /\ selNextId' = nid
  /\ UNCHANGED <<keySlot, store, nextId, now, keysReturned, slotWrites,
                 cryptoFailed, loop, tabs, page, adding>>

\* addUserPromptSelection, the whole call with no other call between its
\* awaits.
AddUserPromptSelection ==
  \E promptId \in PromptIdValues, userId \in UserIdValues, withId \in BOOLEAN :
    /\ FindFirst(selections, promptId, DefaultUser(userId)) = <<>>
         => Len(selections) < MaxSelections /\ selNextId <= MaxSelections
    /\ \E r \in {addUserPromptSelection(dbGetAll(selections), selections,
                                        selNextId, promptId, userId, now,
                                        withId)} :
         SelReturned("addUserPromptSelection", promptId, userId, r.ret,
                     r.added, r.rows, r.nextId)

RemoveUserPromptSelection ==
  \E promptId \in PromptIdValues, userId \in UserIdValues :
    SelReturned("removeUserPromptSelection", promptId, userId, <<>>, FALSE,
                removeUserPromptSelection(selections, promptId, userId),
                selNextId)

IsPromptSelectedByUser ==
  \E promptId \in PromptIdValues, userId \in UserIdValues :
    SelReturned("isPromptSelectedByUser", promptId, userId, <<>>,
                isPromptSelectedByUser(selections, promptId, userId),
                selections, selNextId)

GetUserPromptSelections ==
  \E userId \in UserIdValues :
    SelReturned("getUserPromptSelections", Str(""), userId,
                getUserPromptSelections(selections, userId), FALSE,
                selections, selNextId)

NextSelect ==
  \/ AddUserPromptSelection
  \/ RemoveUserPromptSelection
  \/ IsPromptSelectedByUser
  \/ GetUserPromptSelections

SpecSelect == Init /\ [][NextSelect]_vars

\* --------------------------------- addUserPromptSelection, await by await
\* The adds that calls in progress have still to make.
PendingAdds == Cardinality({c \in Calls : adding[c].pc = "add"})

\* Call c is made and its getAll resolves: the call returns the record it
\* finds, or goes on to its add with the list it has read.
AddGetAll(c) ==
  /\ adding[c].pc \in {"idle", "done"}
  /\ \E promptId \in PromptIdValues, userId \in UserIdValues, withId \in BOOLEAN :
       \E r \in {addUserPromptSelection(dbGetAll(selections), selections,
                                        selNextId, promptId, userId, now,
                                        withId)} :
         IF r.added
         THEN /\ Len(selections) + PendingAdds < MaxSelections
              /\ selNextId + PendingAdds <= MaxSelections
              /\ adding' = [adding EXCEPT ![c] =
                              [pc |-> "add", promptId |-> promptId,
                               userId |-> userId, withId |-> withId,
                               existingSelections |-> dbGetAll(selections)]]
              /\ UNCHANGED <<keySlot, store, nextId, now, last, keysReturned,
                             slotWrites, cryptoFailed, loop, tabs, page,
                             selections, selNextId>>
         ELSE /\ adding' = [adding EXCEPT ![c] = [NoCall EXCEPT !.pc = "done"]]
              /\ last' = [Blank EXCEPT
                            !.op = "addUserPromptSelection",
                            !.arg = <<[promptId |-> promptId, userId |-> userId]>>,
                            !.ret = r.ret, !.flag = FALSE]
              /\ UNCHANGED <<keySlot, store, nextId, now, keysReturned,
                             slotWrites, cryptoFailed, loop, tabs, page,
                             selections, selNextId>>

\* The dbOperations.add of call c runs and the call returns.
AddAdd(c) ==
  /\ adding[c].pc = "add"
  /\ \E r \in {addUserPromptSelection(adding[c].existingSelections, selections,
                                      selNextId, adding[c].promptId,
                                      adding[c].userId, now, adding[c].withId)} :
       /\ selections' = r.rows
       /\ selNextId' = r.nextId
       /\ last' = [Blank EXCEPT
                     !.op = "addUserPromptSelection",
                     !.arg = <<[promptId |-> adding[c].promptId,
                                userId |-> adding[c].userId]>>,
                     !.ret = r.ret, !.flag = TRUE]
  /\ adding' = [adding EXCEPT ![c] = [NoCall EXCEPT !.pc = "done"]]
  /\ UNCHANGED <<keySlot, store, nextId, now, keysReturned, slotWrites,
                 cryptoFailed, loop, tabs, page>>

NextSelectRace ==
  \/ \E c \in Calls : AddGetAll(c)
  \/ \E c \in Calls : AddAdd(c)
  \/ IsPromptSelectedByUser

SpecSelectRace == Init /\ [][NextSelectRace]_vars

\* ------------------------------------------------------------------ claims
\* C1 (as stated): whatever addPrompt, getAllPrompts, getPromptsByType,
\* getPromptById, updatePrompt or copyPrompt hands its caller, no content in it
\* is ciphertext under the active key.
C1_CallersSeePlaintext ==
  last.op \in {"addPrompt", "getAllPrompts", "getPromptsByType",
               "getPromptById", "updatePrompt", "copyPrompt"}
    => \A i \in 1..Len(last.ret) : ~isEncrypted(last.ret[i].content, keySlot)

\* C2 (as stated): as long as no key retrieval, detection or encryption has
\* failed, every stored record's content is recognised as ciphertext under the
\* active key.
C2_StoredIsCiphertext ==
  ~cryptoFailed
    => \A i \in 1..Len(store) : isEncrypted(store[i].content, keySlot)

\* C5: the key getter has returned at most one key, has written the slot at
\* most once, and the key it returned is the one the slot holds.
C5_KeyPersists ==
  /\ Cardinality(keysReturned) <= 1
  /\ slotWrites <= 1
  /\ keysReturned # {} => keysReturned = {keySlot}
  /\ keySlot # NoKey => slotWrites = 1

\* A decrypting read that found a record: the getter ran for the write that
\* stored it and again for this read.
C5_Witness ==
  /\ last.op = "getPromptById" /\ last.flag /\ last.ret # <<>>
  /\ keysReturned = {keySlot}
  /\ slotWrites = 1

\* C6: addPrompt, and updatePrompt given an id, never throw and always write
\* the record they return; when key retrieval, detection or encryption failed,
\* that record is the caller's record as it was handed in.
C6_WriteNeverBlocked ==
  /\ last.op = "addPrompt" =>
       /\ ~last.threw
       /\ Len(last.ret) = 1
       /\ dbHas(store, last.ret[1].id)
       /\ dbGetById(store, last.ret[1].id) = last.ret[1]
       /\ last.caught => last.ret[1] = [last.arg[1] EXCEPT !.id = last.ret[1].id]
  /\ last.op = "updatePrompt" /\ last.arg[1].id # NoId =>
       /\ ~last.threw
       /\ Len(last.ret) = 1
       /\ dbHas(store, last.arg[1].id)
       /\ dbGetById(store, last.arg[1].id) = last.ret[1]
       /\ last.caught => last.ret[1] = last.arg[1]

\* An update whose encryption failed has written the typed text as it is.
C6_Witness ==
  /\ last.op = "updatePrompt" /\ last.caught /\ ~last.threw
  /\ last.arg[1].content = <<"a">>
  /\ dbGetById(store, last.arg[1].id).content = <<"a">>

\* C3 (as stated): encryptText then decryptText with the same key gives back
\* every text, the empty text included.
C3_RoundTripEveryText ==
  last.op = "roundTrip" /\ last.k1 = last.k2
    => ~last.threw /\ last.text = last.intext

\* C3 (amended): encryptText then decryptText with the same key gives back
\* every text that is not empty, and throws for the empty text.
C3_RoundTripNonEmpty ==
  last.op = "roundTrip" /\ last.k1 = last.k2
    => IF last.intext = <<>>
       THEN last.threw
       ELSE ~last.threw /\ last.text = last.intext

\* A text that is itself an envelope has made the round trip.
C3_Witness ==
  /\ last.op = "roundTrip" /\ last.k1 = last.k2
  /\ IsEnvelope(last.intext)
  /\ ~last.threw /\ last.text = last.intext

\* C4 (as stated): for a record whose content is plaintext, or ciphertext the
\* active key has made, the second of two encryptPrompt passes leaves the
\* content of the first as it is.
C4_SecondPassKeepsContent ==
  /\ last.op = "encryptPromptTwice"
  /\ \/ ~StartsWithMarker(last.arg[1].content)
     \/ /\ IsEnvelope(last.arg[1].content)
        /\ last.arg[1].content[5] = last.k1
  => last.ret[2].content = last.ret[1].content

\* C7: decryptPrompt never throws; it hands back the record it was given when
\* something failed or when isEncrypted says no, and otherwise that record
\* with its content decrypted, which for an envelope of the active key is the
\* text the envelope was made of.
C7_DecryptPromptTotal ==
  last.op = "decryptPrompt" =>
    LET prompt == last.arg[1]
        key    == last.k2
    IN  /\ ~last.threw
        /\ last.caught => last.ret[1] = prompt
        /\ ~last.caught /\ ~isEncrypted(prompt.content, key)
             => last.ret[1] = prompt
        /\ ~last.caught /\ isEncrypted(prompt.content, key)
             => /\ last.ret[1] = [prompt EXCEPT
                                   !.content = decryptText(prompt.content, key).text]
                /\ prompt.content[5] = key
                     => last.ret[1].content
                          = SubSeq(prompt.content, 6, Len(prompt.content))

\* decryptPrompt has decrypted an envelope of the active key.
C7_Witness ==
  /\ last.op = "decryptPrompt" /\ ~last.caught /\ ~last.threw
  /\ IsEnvelope(last.arg[1].content)
  /\ last.arg[1].content[5] = last.k2
  /\ last.ret[1].content = <<"a">>

\* C8: when something failed inside decryptPromptOnDemand, or the content does
\* not decrypt under the active key, the call does not throw and hands back
\* the content as it was given.
C8_OnDemandFallsBack ==
  /\ last.op = "decryptPromptOnDemand"
  /\ last.caught \/ decryptText(last.arg[1].content, last.k2).threw
  => ~last.threw /\ last.text = last.arg[1].content

\* decryptPromptOnDemand was given an envelope that the active key does not
\* open, and handed it back.
C8_Witness ==
  /\ last.op = "decryptPromptOnDemand" /\ ~last.caught /\ ~last.threw
  /\ last.k2 # NoKey
  /\ IsEnvelope(last.arg[1].content)
  /\ last.arg[1].content[5] # last.k2
  /\ decryptText(last.arg[1].content, last.k2).threw
  /\ last.text = last.arg[1].content

\* C9 (as stated): encryptPrompt hands a record whose content the active key
\* has made back unchanged.
C9_CiphertextKeptAsIs ==
  /\ last.op = "encryptPrompt"
  /\ IsEnvelope(last.arg[1].content)
  /\ last.arg[1].content[5] = last.k1
  => ~last.threw /\ last.ret[1] = last.arg[1]

\* C10 (as stated): encryptText with one key, then decryptText with another,
\* throws.
C10_WrongKeyThrows ==
  last.op = "roundTrip" /\ last.k1 # last.k2 => last.threw

\* C11: decryptText throws whenever what the cipher leaves is empty, the
\* envelope of the empty text under its own key included, and never returns
\* the empty text.
C11_EmptyIsFailure ==
  last.op = "decryptText" =>
    /\ AesDecrypt(last.intext, last.k2).text = <<>> => last.threw
    /\ ~last.threw => last.text # <<>>

\* decryptText was given the envelope of the empty text and its own key.
C11_Witness ==
  /\ last.op = "decryptText" /\ last.threw
  /\ IsEnvelope(last.intext) /\ Len(last.intext) = 5
  /\ last.intext[5] = last.k2

\* C12: isEncrypted does not throw, and answers false for an envelope made
\* with another key whose decryption throws or leaves nothing.
C12_WrongKeyIsFalse ==
  last.op = "isEncrypted" =>
    /\ ~last.threw
    /\ /\ IsEnvelope(last.intext)
       /\ last.intext[5] # last.k2
       /\ \/ AesDecrypt(last.intext, last.k2).threw
          \/ AesDecrypt(last.intext, last.k2).text = <<>>
       => ~last.flag

\* isEncrypted has answered false for an envelope of another key that
\* decrypts to nothing.
C12_Witness ==
  /\ last.op = "isEncrypted" /\ ~last.flag /\ ~last.threw
  /\ IsEnvelope(last.intext) /\ last.intext[5] # last.k2
  /\ ~AesDecrypt(last.intext, last.k2).threw
  /\ AesDecrypt(last.intext, last.k2).text = <<>>

\* C13: for a text that is empty or does not start with the marker,
\* isEncrypted answers false and has not called decryptText.
C13_NoMarkerNoDecrypt ==
  /\ last.op = "isEncrypted"
  /\ last.intext = <<>> \/ ~StartsWithMarker(last.intext)
  => ~last.flag /\ last.calls = 0 /\ ~last.threw

\* isEncrypted was given a text that is not empty and has no marker.
C13_Witness ==
  /\ last.op = "isEncrypted" /\ last.intext = <<"a">>
  /\ ~last.flag /\ last.calls = 0

\* C14: for a text that starts with the marker, isEncrypted answers true
\* exactly when decryptText returns a text and that text is not the input.
C14_TrueIffDecrypts ==
  last.op = "isEncrypted" /\ StartsWithMarker(last.intext) =>
    last.flag = (/\ ~decryptText(last.intext, last.k2).threw
                 /\ decryptText(last.intext, last.k2).text # last.intext)

\* isEncrypted has answered false for a text that starts with the marker and
\* is no envelope.
C14_Witness ==
  /\ last.op = "isEncrypted" /\ ~last.flag
  /\ StartsWithMarker(last.intext) /\ ~IsEnvelope(last.intext)

\* C16 (as stated): a record whose content is an envelope of a key other than
\* the active one is encrypted again under the active key by encryptPrompt,
\* with no error, and is returned unchanged by decryptPrompt.
C16_StaleKeyDoubleWrap ==
  /\ last.op \in {"encryptPrompt", "decryptPrompt"}
  /\ ~last.caught
  /\ last.k1 # NoKey
  /\ IsEnvelope(last.arg[1].content)
  /\ last.arg[1].content[5] # last.k1
  => /\ ~last.threw
     /\ last.op = "encryptPrompt" =>
          /\ IsEnvelope(last.ret[1].content)
          /\ last.ret[1].content[5] = last.k1
          /\ SubSeq(last.ret[1].content, 6, Len(last.ret[1].content))
               = last.arg[1].content
     /\ last.op = "decryptPrompt" => last.ret[1] = last.arg[1]

\* C17: getAllPrompts, getPromptsByType and getPromptById return the stored
\* records as they are persisted when the decrypt flag is false, and what
\* decryptPrompts or decryptPrompt makes of them when it is true.
C17_DecryptOnlyOnOptIn ==
  /\ last.op = "getAllPrompts" =>
       last.ret = IF last.flag
                  THEN decryptPrompts(sortByUpdatedAt(dbGetAll(store)), keySlot,
                                      keySlot, NoFaults(Len(store))).prompts
                  ELSE sortByUpdatedAt(dbGetAll(store))
  /\ last.op = "getPromptsByType" =>
       last.ret = IF last.flag
                  THEN decryptPrompts(sortByUpdatedAt(dbGetAll(store)), keySlot,
                                      keySlot, NoFaults(Len(store))).prompts
                  ELSE sortByUpdatedAt(dbGetAll(store))
  /\ last.op = "getPromptById" /\ last.ret # <<>> =>
       /\ Len(last.ret) = 1
       /\ dbHas(store, last.ret[1].id)
       /\ last.ret[1] = IF last.flag
                        THEN decryptPrompt(dbGetById(store, last.ret[1].id),
                                           keySlot, keySlot, "none").value
                        ELSE dbGetById(store, last.ret[1].id)

\* getPromptsByType without the flag has returned a record whose content is
\* the stored ciphertext.
C17_Witness ==
  /\ last.op = "getPromptsByType" /\ ~last.flag
  /\ Len(last.ret) >= 1
  /\ IsEnvelope(last.ret[1].content)
  /\ last.ret[1] \in Stored

\* C19: when copyPrompt returns with nothing failing and the original holds a
\* text that is not empty, the new record is stored, read with decryption it
\* has the content the original has read with decryption, and its stored
\* content is one envelope of the active key.
C19_CopyKeepsPlaintext ==
  /\ last.op = "copyPrompt" /\ ~last.threw /\ ~last.caught
  /\ Innermost(last.arg[1].content) # <<>>
  => /\ last.ret[1] \in Stored
     /\ last.ret[1].id # last.arg[1].id
     /\ decryptPrompt(last.ret[1], keySlot, keySlot, "none").value.content
          = decryptPrompt(last.arg[1], keySlot, keySlot, "none").value.content
     /\ Wraps(last.ret[1].content) = 1
     /\ last.ret[1].content[5] = keySlot

\* copyPrompt has copied a record whose stored content is the envelope of a
\* text that is not empty.
C19_Witness ==
  /\ last.op = "copyPrompt" /\ ~last.threw /\ ~last.caught
  /\ IsEnvelope(last.arg[1].content)
  /\ Innermost(last.arg[1].content) # <<>>
  /\ Len(store) = 2

\* C18: decryptPrompts starts element i+1 only when element i has finished;
\* what it returns has the length of its input, element i is decryptPrompt of
\* input element i, whatever has failed on the other elements, and the call
\* does not throw.
C18_OneByOneInOrder ==
  /\ Cardinality(loop.inflight) <= 1
  /\ \A n \in 1..Len(loop.log) :
       loop.log[n] = [ev |-> IF n % 2 = 1 THEN "start" ELSE "end",
                      i  |-> (n + 1) \div 2]
  /\ last.op = "decryptPrompts" =>
       /\ ~last.threw
       /\ Len(last.ret) = Len(last.arg)
       /\ \A i \in 1..Len(last.arg) :
            last.ret[i] = decryptPrompt(last.arg[i], last.k2, last.k2,
                                        last.faults[i]).value
       /\ last.ret = decryptPrompts(last.arg, last.k1, last.k2,
                                    last.faults).prompts

\* decryptPrompts has returned a list whose first element failed and was
\* kept, and whose second element was decrypted.
C18_Witness ==
  /\ last.op = "decryptPrompts" /\ Len(last.arg) = 2
  /\ last.faults[1] # "none"
  /\ IsEnvelope(last.arg[1].content) /\ last.ret[1] = last.arg[1]
  /\ IsEnvelope(last.arg[2].content) /\ last.ret[2].content = <<"a">>
  /\ Len(loop.log) = 4

\* C15: when two tabs have both found the slot empty and both written a key,
\* the slot holds the key written later; and a stored record that is an
\* envelope of a key other than the one in the slot at the time of a read with
\* decryption does not come back from it as its text.
C15_LaterWriteWins ==
  /\ \A t \in Tabs, u \in Tabs :
       tabs[t].wrote > 0 /\ tabs[u].wrote > tabs[t].wrote =>
         keySlot = tabs[u].key
  /\ /\ last.op = "getPromptById" /\ last.flag /\ last.ret # <<>>
     /\ dbHas(store, last.ret[1].id)
     /\ IsEnvelope(dbGetById(store, last.ret[1].id).content)
     /\ dbGetById(store, last.ret[1].id).content[5] # last.k2
     => last.ret[1].content # Innermost(dbGetById(store, last.ret[1].id).content)

\* Both tabs found the slot empty, generated different keys and stored a
\* record each; the record of the tab that wrote first has been read with
\* decryption.
C15_Witness ==
  /\ \E t \in Tabs, u \in Tabs :
       /\ tabs[t].wrote = 1 /\ tabs[u].wrote = 2
       /\ tabs[t].pc = "done" /\ tabs[u].pc = "done"
       /\ tabs[t].key # tabs[u].key
       /\ keySlot = tabs[u].key
       /\ keysReturned = Keys
       /\ last.op = "getPromptById" /\ last.flag /\ last.ret # <<>>
       /\ dbHas(store, last.ret[1].id)
       /\ IsEnvelope(dbGetById(store, last.ret[1].id).content)
       /\ dbGetById(store, last.ret[1].id).content[5] = tabs[t].key
       /\ last.ret[1].content # <<"a">>

C22_OnlyContentReplaced ==
  /\ last.op \in {"encryptPrompt", "decryptPrompt"}
  /\ last.ret[1].content # last.arg[1].content
  => /\ DOMAIN last.ret[1] = DOMAIN last.arg[1]
     /\ \A f \in DOMAIN last.arg[1] \ {"content"} :
          last.ret[1][f] = last.arg[1][f]
     /\ last.input[1] = last.arg[1]

\* decryptPrompt has returned a record with the text of the envelope it was
\* given as content.
C22_Witness ==
  /\ last.op \in {"encryptPrompt", "decryptPrompt"}
  /\ last.ret[1].content # last.arg[1].content
  /\ IsEnvelope(last.arg[1].content)
  /\ last.ret[1].content = <<"a">>
  /\ last.ret[1].userId = last.arg[1].userId

\* C23 (as stated): when onSave hands updatePrompt a record whose content is
\* the stored content, one envelope of the active key, as the list read it,
\* the stored content stays that envelope and a read with decryption gives
\* the text under it.
C23_SaveKeepsOneLayer ==
  [][/\ last'.op = "updatePrompt" /\ last'.by = "page"
     /\ ~last'.threw /\ ~last'.caught
     /\ <<last, store>>' # <<last, store>>
     /\ dbHas(store, last'.arg[1].id)
     /\ last'.arg[1].content = dbGetById(store, last'.arg[1].id).content
     /\ IsEnvelope(last'.arg[1].content)
     /\ Wraps(last'.arg[1].content) = 1
     /\ last'.arg[1].content[5] = keySlot
     => /\ dbGetById(store', last'.arg[1].id).content = last'.arg[1].content
        /\ decryptPrompt(dbGetById(store', last'.arg[1].id), keySlot', keySlot',
                         "none").value.content
             = Innermost(last'.arg[1].content)]_vars

\* C24: a copyPrompt that returns adds exactly one record, under an id no
\* record had, and leaves every record that was stored, the original included,
\* as it was; the new record has the original's type, description, examples
\* and userId, the original's title followed by the copy suffix, isPublic
\* false, and createdAt and updatedAt read from the clock at the call.
C24_CopyAddsOne ==
  [][/\ last'.op = "copyPrompt" /\ ~last'.threw
     /\ <<last, store>>' # <<last, store>>
     => /\ last'.arg # <<>>
        /\ Len(store') = Len(store) + 1
        /\ SubSeq(store', 1, Len(store)) = store
        /\ dbGetById(store', last'.arg[1].id) = last'.arg[1]
        /\ LET original == last'.arg[1]
               copy == store'[Len(store')]
           IN  /\ copy.id \notin Ids(store)
               /\ copy = last'.ret[1]
               /\ copy.type = original.type
               /\ copy.description = original.description
               /\ copy.examples = original.examples
               /\ copy.userId = original.userId
               /\ copy.title = Append(original.title, CopySuffix)
               /\ copy.isPublic = "false"
               /\ copy.createdAt = now
               /\ copy.updatedAt = now]_vars

\* A copy, made at a later clock reading, of a public prompt that has an
\* owner, a description and examples.
C24_Witness ==
  /\ last.op = "copyPrompt" /\ ~last.threw
  /\ Len(store) = 2
  /\ store[1] = last.arg[1]
  /\ store[1].isPublic = "true" /\ store[1].userId = "u1"
  /\ store[1].description = "d" /\ store[1].examples = <<"e">>
  /\ store[2].title = Append(store[1].title, CopySuffix)
  /\ store[2].createdAt > store[1].createdAt

\* C25: when the page calls copyPrompt with an id that no stored record has,
\* the call throws and the store gains no record; the page's list and its
\* selected prompt are as before, the detail modal is still open, and the
\* failure is alerted.
C25_MissingIdFails ==
  [][/\ page'.event = "handleCopyPrompt"
     /\ last'.op = "copyPrompt" /\ last'.by = "page"
     /\ <<last, page>>' # <<last, page>>
     /\ ~dbHas(store, page.selectedPrompt[1].id)
     => /\ last'.threw /\ last'.ret = <<>>
        /\ store' = store /\ nextId' = nextId
        /\ page'.prompts = page.prompts
        /\ page'.selectedPrompt = page.selectedPrompt
        /\ page'.showDetailModal
        /\ page'.alert = "copy failed"]_vars

\* The page has tried to copy a prompt that is in its list and not in the
\* store any more.
C25_Witness ==
  /\ page.event = "handleCopyPrompt" /\ page.alert = "copy failed"
  /\ last.op = "copyPrompt" /\ last.by = "page" /\ last.threw
  /\ page.showDetailModal
  /\ page.selectedPrompt[1].id # NoId
  /\ ~dbHas(store, page.selectedPrompt[1].id)
  /\ \E i \in 1..Len(page.prompts) : page.prompts[i] = page.selectedPrompt[1]

\* The list ret holds one record for each record of the list stored, with the
\* same fields except perhaps the content, and is ordered by updatedAt from
\* newest to oldest.
IsSortedListOf(ret, stored) ==
  /\ Len(ret) = Len(stored)
  /\ \A i \in 1..Len(stored) :
       \E j \in 1..Len(ret) : [ret[j] EXCEPT !.content = stored[i].content] = stored[i]
  /\ \A i \in 1..Len(ret) : \A j \in i..Len(ret) :
       ret[i].updatedAt >= ret[j].updatedAt

\* C26: getPromptsByType(type) returns exactly the stored prompts of that
\* type, getAllPrompts every stored prompt; both lists are ordered by
\* updatedAt from newest to oldest, with and without decryption, and without
\* decryption the records are the stored ones.
C26_FilteredAndSorted ==
  /\ last.op = "getPromptsByType" /\ ~last.threw =>
       /\ IsSortedListOf(last.ret,
                         SelectSeq(store, LAMBDA r : r.type = last.arg[1].type))
       /\ \A j \in 1..Len(last.ret) :
            /\ last.ret[j].type = last.arg[1].type
            /\ ~last.flag => \E i \in 1..Len(store) : store[i] = last.ret[j]
  /\ last.op = "getAllPrompts" /\ ~last.threw =>
       /\ IsSortedListOf(last.ret, store)
       /\ \A j \in 1..Len(last.ret) :
            ~last.flag => \E i \in 1..Len(store) : store[i] = last.ret[j]

\* getPromptsByType, decrypting, has returned the two prompts of its type, the
\* one written last in front of the one that is first in the store.
C26_Witness ==
  /\ last.op = "getPromptsByType" /\ ~last.threw /\ last.flag
  /\ Len(last.ret) = 2
  /\ last.ret[1].id = store[2].id /\ last.ret[2].id = store[1].id
  /\ last.ret[1].updatedAt > last.ret[2].updatedAt
  /\ last.ret[1].content # store[2].content

\* No two records of the list are for the same promptId and userId.
OnePerPair(rows) ==
  \A i, j \in 1..Len(rows) :
    Matches(rows[j], rows[i].promptId, rows[i].userId) => i = j

\* C27: when addUserPromptSelection calls run one after another, the store
\* never holds two records for one (promptId, userId) pair; a call for a pair
\* that has a record leaves the store as it is and returns that record, and a
\* call for any other pair adds one record for it.
C27_OnePerPairInSequence ==
  [][/\ OnePerPair(selections')
     /\ last'.op = "addUserPromptSelection"
        /\ <<last, selections>>' # <<last, selections>>
        => LET existing == FindFirst(selections, last'.arg[1].promptId,
                                     DefaultUser(last'.arg[1].userId))
           IN  IF existing # <<>>
               THEN /\ selections' = selections
                    /\ last'.ret = existing
               ELSE /\ Len(selections') = Len(selections) + 1
                    /\ SubSeq(selections', 1, Len(selections)) = selections
                    /\ last'.ret = <<selections'[Len(selections')]>>
                    /\ Matches(last'.ret[1], last'.arg[1].promptId,
                               DefaultUser(last'.arg[1].userId))]_vars

\* A call for a pair that was selected already has returned the record of
\* the pair, with records of other pairs in the store.
C27_Witness ==
  /\ last.op = "addUserPromptSelection" /\ ~last.flag
  /\ Len(selections) = 2
  /\ Len(last.ret) = 1
  /\ \E i \in 1..Len(selections) : selections[i] = last.ret[1]
  /\ Matches(last.ret[1], last.arg[1].promptId, DefaultUser(last.arg[1].userId))

\* C28 (as stated): whatever the order in which the awaits of two
\* addUserPromptSelection calls for one (promptId, userId) pair resolve, once
\* no add is pending the store holds at most one record of the pair.
C28_OnePerPairInterleaved ==
  (\A c \in Calls : adding[c].pc # "add") => OnePerPair(selections)

\* The list without its element i.
Without(rows, i) == SubSeq(rows, 1, i - 1) \o SubSeq(rows, i + 1, Len(rows))

\* The records of the list that are for promptId and userId.
Matching(rows, promptId, userId) ==
  {i \in 1..Len(rows) : Matches(rows[i], promptId, userId)}

\* C29 (as stated): removeUserPromptSelection(promptId, userId) does not
\* throw; it leaves the store as it is or without one record, a record for
\* promptId and userId; it leaves the store as it is when no record matches
\* or the matching record has no id; and when exactly one record matches and
\* that record has an id, isPromptSelectedByUser(promptId, userId) is false
\* afterwards.
C29_RemovesTheMatch ==
  [][/\ last'.op = "removeUserPromptSelection"
     /\ <<last, selections>>' # <<last, selections>>
     => LET promptId == last'.arg[1].promptId
            userId == DefaultUser(last'.arg[1].userId)
            found == FindFirst(selections, promptId, userId)
        IN  /\ ~last'.threw
            /\ \/ selections' = selections
               \/ \E i \in Matching(selections, promptId, userId) :
                    selections' = Without(selections, i)
            /\ (found = <<>> \/ found[1].id = NoId) => selections' = selections
            /\ /\ Cardinality(Matching(selections, promptId, userId)) = 1
               /\ found[1].id # NoId
               => ~isPromptSelectedByUser(selections', promptId,
                                          last'.arg[1].userId)]_vars

\* C30 (as stated): isPromptSelectedByUser(promptId, userId) returns true if
\* and only if the store holds a record with that promptId and that userId.
C30_SelectedIffRecord ==
  last.op = "isPromptSelectedByUser" =>
    (last.flag <=> Matching(selections, last.arg[1].promptId,
                            DefaultUser(last.arg[1].userId)) # {})

====
